---- MODULE Spec2Model ----
(***************************************************************************)
(* Persona session of the image-persona chat application.                  *)
(*                                                                         *)
(* Client state lives in the Home component (page.tsx) and the ChatBox     *)
(* component; the two API routes (api/chat, api/generate-persona) are      *)
(* stateless request handlers.  Strings are sequences of pieces; a JSON    *)
(* text is a sequence of tokens.                                           *)
(***************************************************************************)
EXTENDS Integers, Sequences, FiniteSets, TLC

\* ------------------------------------------------------------------ bounds

MaxTurns == 2        \* turns submitted before the chat input is left alone
MaxCalls == 2        \* outstanding requests of one kind the network holds
MaxImages == 2       \* distinct images (data URLs) the chosen files hold
MaxHistory == 2      \* longest history of a request handed to the chat route alone
MaxText == 4         \* longest provider text of the enumerated ones, in tokens
MaxNoise == 2        \* longest noise around a persona object in a provider text

\* ------------------------------------------------------------------ values

Images == 1 .. MaxImages
NoImage == 0
NotAnImage == MaxImages + 1      \* a file whose type is not image/*

\* The files chosen in a session of the whole page: one image and one file
\* of another type.  Sessions that go from one image to another are those of
\* SpecUpload.
PageFiles == {1, NotAnImage}

\* Texts typed into the chat input: empty, blank, a word after a blank.
Texts == {<<>>, <<" ">>, <<" ", "a">>}

\* String.prototype.trim(): whitespace removed from both ends.
RECURSIVE TrimLeft(_)
TrimLeft(s) == IF s # <<>> /\ Head(s) = " " THEN TrimLeft(Tail(s)) ELSE s

RECURSIVE TrimRight(_)
TrimRight(s) ==
    IF s # <<>> /\ s[Len(s)] = " " THEN TrimRight(SubSeq(s, 1, Len(s) - 1)) ELSE s

Trim(s) == TrimRight(TrimLeft(s))

\* A JavaScript value held in a persona field.
Undef == [k |-> "undef", v |-> <<>>]
Str(s) == [k |-> "str", v |-> <<s>>]
Arr(a) == [k |-> "arr", v |-> a]

Fields == {"name", "description", "personality", "background", "traits"}

\* persona state: null, or the object the persona route returned.
NullPersona ==
    [k |-> "null", name |-> Undef, description |-> Undef, personality |-> Undef,
     background |-> Undef, traits |-> Undef]

EmptyObject == [NullPersona EXCEPT !.k = "obj"]

\* interface PersonaResult: every field a string, traits an array of strings.
IsPersonaRecord(p) ==
    /\ p.k = "obj"
    /\ \A f \in Fields \ {"traits"} : p[f].k = "str"
    /\ p.traits.k = "arr"

Apology == <<"I'm sorry, I'm having trouble responding right now. Please try again.">>

UserTurn(text) == [role |-> "user", content |-> text]
AssistantTurn(text) == [role |-> "assistant", content |-> text]

\* ------------------------------------------------- api/generate-persona

\* The tokens of a provider text: braces, noise, and "key": value members.
MemberTokens == {"n", "d", "p", "b", "t", "T"}

Member(tok) ==
    CASE tok = "n" -> [key |-> "name", val |-> Str("Rocky")]
      [] tok = "d" -> [key |-> "description", val |-> Str("a pebble")]
      [] tok = "p" -> [key |-> "personality", val |-> Str("stoic")]
      [] tok = "b" -> [key |-> "background", val |-> Str("fell from a cliff")]
      [] tok = "t" -> [key |-> "traits", val |-> Arr(<<"calm", "gritty">>)]
      [] OTHER -> [key |-> "traits", val |-> Str("calm")]

Positions(text, tok) == {i \in 1 .. Len(text) : text[i] = tok}

Min(S) == CHOOSE x \in S : \A y \in S : x <= y
Max(S) == CHOOSE x \in S : \A y \in S : x >= y

\* Variant: a lazy scan, /\{[\s\S]*?\}/, stops at the first "}" after the
\* first "{".
JsonMatchLazy(text) ==
    LET opens == Positions(text, "{")
        closes == Positions(text, "}")
    IN  IF opens = {} \/ closes = {} \/ Max(closes) < Min(opens) THEN <<>>
        ELSE SubSeq(text, Min(opens), Min({c \in closes : c > Min(opens)}))

\* responseContent.match(/\{[\s\S]*\}/): from the first "{" that has a "}"
\* after it up to the last "}" of the text; <<>> when there is no match.
JsonMatch(text) ==
    LET opens == Positions(text, "{")
        closes == Positions(text, "}")
    IN  IF opens = {} \/ closes = {} \/ Max(closes) < Min(opens) THEN <<>>
        ELSE SubSeq(text, Min(opens), Max(closes))

RECURSIVE BuildObject(_, _)
BuildObject(members, obj) ==
    IF members = <<>> THEN obj
    ELSE LET m == Member(Head(members))
         IN  BuildObject(Tail(members), [obj EXCEPT ![m.key] = m.val])

\* JSON.parse of a candidate: an object of members, or a SyntaxError.
JsonParse(cand) ==
    LET inner == SubSeq(cand, 2, Len(cand) - 1)
        wellFormed ==
            /\ Len(cand) >= 2
            /\ cand[1] = "{"
            /\ cand[Len(cand)] = "}"
            /\ \A i \in 1 .. Len(inner) : inner[i] \in MemberTokens
    IN  IF wellFormed THEN [ok |-> TRUE, value |-> BuildObject(inner, EmptyObject)]
        ELSE [ok |-> FALSE, value |-> NullPersona]

\* What the provider call of a route can come back with.
ProviderFailure == [ok |-> FALSE, content |-> <<>>]
ProviderText(c) == [ok |-> TRUE, content |-> c]

Response(status, persona, text) == [status |-> status, persona |-> persona, response |-> text]
Failed(status) == Response(status, NullPersona, <<>>)

\* POST of api/generate-persona from the provider's answer on.
PersonaRoute(answer) ==
    IF ~answer.ok THEN Failed(500)
    ELSE IF answer.content = <<>> THEN Failed(500)
    ELSE LET jsonMatch == JsonMatch(answer.content)
         IN  IF jsonMatch = <<>> THEN Failed(500)
             ELSE LET parsed == JsonParse(jsonMatch)
                  IN  IF ~parsed.ok THEN Failed(500)
                      ELSE Response(200, parsed.value, <<>>)

\* What the try block of the route throws on a provider answer: "" when it
\* runs through.  A provider call that fails and a completion without text
\* are the failures of the provider; a text without a match and a match that
\* JSON.parse refuses are the failures of the extraction.
ThrownError(answer) ==
    IF ~answer.ok THEN "OpenAI API error"
    ELSE IF answer.content = <<>> THEN "No response from AI"
    ELSE IF JsonMatch(answer.content) = <<>> THEN "Invalid response format from AI"
    ELSE IF ~JsonParse(JsonMatch(answer.content)).ok THEN "SyntaxError"
    ELSE ""

\* The body of a response of api/generate-persona, as far as it tells an
\* error: the 400 return and the catch block each hold one literal.
PersonaErrorBody(reply) ==
    CASE reply.status = 400 -> "No image file provided"
      [] reply.status = 500 -> "Failed to generate persona"
      [] OTHER -> ""

\* Variant: a request without an image goes on to the provider.
PersonaPostUnguarded(image, answer) == [asked |-> TRUE, reply |-> PersonaRoute(answer)]

\* POST of api/generate-persona: a request whose form holds no image is
\* answered 400 before the provider is asked.
PersonaPost(image, answer) ==
    IF image = NoImage THEN [asked |-> FALSE, reply |-> Failed(400)]
    ELSE [asked |-> TRUE, reply |-> PersonaRoute(answer)]

FullBody == <<"{", "n", "d", "p", "b", "t", "}">>

\* Provider texts: the whole object bare and inside noise, an object of one
\* field, one with traits of the wrong type, an undecodable one, braces in
\* the wrong order, no braces, no text.
PersonaTexts ==
    { FullBody,
      <<"x">> \o FullBody \o <<"x">>,
      <<"{", "n", "}">>,
      <<"{", "n", "d", "p", "b", "T", "}">>,
      <<"{", "x", "}">>,
      <<"}", "{">>,
      <<"x">>,
      <<>> }

PersonaAnswers == {ProviderFailure} \cup {ProviderText(c) : c \in PersonaTexts}

\* ------------------------------------------------------------- api/chat

\* Template interpolation ${value} and Array.prototype.join.
RECURSIVE Join(_, _)
Join(a, sep) ==
    IF a = <<>> THEN <<>>
    ELSE IF Len(a) = 1 THEN <<a[1]>>
    ELSE <<a[1], sep>> \o Join(Tail(a), sep)

Interpolate(val) ==
    CASE val.k = "undef" -> <<"undefined">>
      [] val.k = "arr" -> Join(val.v, ",")
      [] OTHER -> val.v

SystemPrompt(persona) ==
    <<"You are ">> \o Interpolate(persona.name) \o <<". ">> \o Interpolate(persona.description)
    \o <<"Your personality: ">> \o Interpolate(persona.personality)
    \o <<"Your background: ">> \o Interpolate(persona.background)
    \o <<"Your key traits: ">> \o Join(persona.traits.v, ", ")
    \o <<"IMPORTANT: You must stay in character as ">> \o Interpolate(persona.name)
    \o <<" at all times. Keep your responses conversational and relatively brief.">>

\* Variant: only the latest turn of the history is resent.
AssembleWindowed(persona, history, message) ==
    <<[role |-> "system", content |-> SystemPrompt(persona)]>>
    \o (IF history = <<>> THEN <<>> ELSE <<history[Len(history)]>>)
    \o <<UserTurn(message)>>

\* const messages = [system, ...chatHistory.map(...), {role: 'user', content: message}]
Assemble(persona, history, message) ==
    <<[role |-> "system", content |-> SystemPrompt(persona)]>>
    \o [i \in 1 .. Len(history) |-> [role |-> history[i].role, content |-> history[i].content]]
    \o <<UserTurn(message)>>

ChatAnswers == {ProviderFailure, ProviderText(<<>>), ProviderText(<<"r">>)}

\* POST of api/chat: the message list sent to the provider (<<>> when the
\* route fails before the provider call) and the response to the client.
ChatRoute(body, answer) ==
    IF body.message = <<>> \/ body.persona.k = "null" THEN [sent |-> <<>>, reply |-> Failed(400)]
    ELSE IF body.persona.traits.k # "arr" THEN [sent |-> <<>>, reply |-> Failed(500)]
    ELSE LET messages == Assemble(body.persona, body.chatHistory, body.message)
         IN  IF ~answer.ok \/ answer.content = <<>>
             THEN [sent |-> messages, reply |-> Failed(500)]
             ELSE [sent |-> messages, reply |-> Response(200, NullPersona, answer.content)]

\* ------------------------------------------------------------ client state

VARIABLES
    selectedImage,   \* Home: data URL of the chosen image, NoImage when null
    persona,         \* Home: the installed persona, NullPersona when null
    isLoading,       \* Home: busy flag of persona generation
    isChatLoading,   \* Home: busy flag of the chat turn
    chatHistory,     \* Home: the conversation log
    tab,             \* the active tab of the persona/chat panel
    crashed,         \* a render threw: the page is unmounted
    reader,          \* images a FileReader is still reading
    chatCalls,       \* outstanding requests to api/chat
    personaCalls,    \* outstanding requests to api/generate-persona
    messages,        \* the messages state of the mounted ChatBox, <<>> while none is mounted
    event,           \* history: the handler run that came last, its input and outcome
    turns,           \* history: turns submitted since the log was last reset
    overlapped       \* history: the log was last reset while a turn was in flight

vars ==
    <<selectedImage, persona, isLoading, isChatLoading, chatHistory, tab, crashed,
      reader, chatCalls, personaCalls, messages, event, turns, overlapped>>

\* Recorded are the runs the properties below speak of: a submission (text,
\* accepted), the settling of a chat call (its message, response ok, promise
\* resolved), the persona route (provider text, provider ok, status 200) and
\* the settling of a persona call (the log held turns, a persona was
\* installed).  Every other handler leaves Other.
\* The settling of a chat call records as well whether the catch block of the
\* ChatBox ran in a mounted ChatBox (bubble).
Event(type, text, arg, ok) ==
    [type |-> type, text |-> text, arg |-> arg, ok |-> ok, bubble |-> FALSE]
Other == Event("other", <<>>, TRUE, TRUE)

RemoveAt(s, i) == SubSeq(s, 1, i - 1) \o SubSeq(s, i + 1, Len(s))

\* The persona tab maps persona.traits; only the active tab's content is rendered.
RenderThrows(activeTab, p) == activeTab = "persona" /\ p.k = "obj" /\ p.traits.k # "arr"

\* ---------------------------------------------------------------- ChatBox

\* The effect's map of the log: text: m.content, sender: m.role === 'user' ?
\* 'user' : 'persona'.
Mapped(log) ==
    [j \in 1 .. Len(log) |->
        [sender |-> IF log[j].role = "user" THEN "user" ELSE "persona",
         text |-> log[j].content]]

\* The error bubble of ChatBox.handleSendMessage's catch block.
Bubble == [sender |-> "persona", text |-> Apology]

\* useEffect(() => setMessages(mapped), [chatHistory])
SyncEffect(msgs, log) == Mapped(log)

\* Variant: the log is rendered, and its effect run, before the catch block
\* of the ChatBox queues its bubble.
CommitBubbleLast(msgs, queued, log) == SyncEffect(msgs, log) \o queued

\* One render of a mounted ChatBox after the log changed: the queued
\* setMessages(prev => [...prev, errorMessage]) are applied to the state,
\* then, the render committed, the effect on chatHistory runs.  The updates
\* of a settling call are queued in microtasks of one task and rendered in a
\* later one.
Commit(msgs, queued, log) == SyncEffect(msgs \o queued, log)

\* The ChatBox is mounted while the chat tab is the active one; mounted anew
\* it starts from useState([]).
AfterCommit(activeTab, msgs, queued, log) ==
    IF activeTab = "chat" THEN Commit(msgs, queued, log) ELSE <<>>

Init ==
    /\ selectedImage = NoImage
    /\ persona = NullPersona
    /\ isLoading = FALSE
    /\ isChatLoading = FALSE
    /\ chatHistory = <<>>
    /\ tab = "persona"
    /\ crashed = FALSE
    /\ reader = {}
    /\ chatCalls = <<>>
    /\ personaCalls = <<>>
    /\ messages = <<>>
    /\ event = Other
    /\ turns = 0
    /\ overlapped = FALSE

\* ---------------------------------------------------------- image upload

\* handleImageUpload: an image file is handed to a FileReader, anything else
\* is refused with a toast.  A file is known by the data URL it is read as:
\* the input fires onChange for every file other than the one it holds, and
\* another file may hold the same image.
UploadImage(file) ==
    /\ ~crashed
    /\ file \notin reader
    /\ reader' = IF file \in Images THEN reader \cup {file} ELSE reader
    /\ event' = Other
    /\ UNCHANGED <<selectedImage, persona, isLoading, isChatLoading, chatHistory, tab,
                   crashed, chatCalls, personaCalls, messages, turns, overlapped>>

\* reader.onload: the image is selected, persona and chat history are cleared.
ReaderLoad(file) ==
    /\ ~crashed
    /\ file \in reader
    /\ reader' = reader \ {file}
    /\ selectedImage' = file
    /\ persona' = NullPersona
    /\ chatHistory' = <<>>
    /\ messages' = AfterCommit(tab, messages, <<>>, chatHistory')
    /\ event' = Other
    /\ turns' = 0
    /\ overlapped' = (chatCalls # <<>>)
    /\ UNCHANGED <<isLoading, isChatLoading, tab, crashed, chatCalls, personaCalls>>

\* ------------------------------------------------------ persona generation

GenerateEnabled == selectedImage # NoImage /\ ~isLoading

\* generatePersona up to the request to api/generate-persona: without a
\* selected image a toast and nothing else.
GeneratePersonaStart ==
    /\ IF selectedImage = NoImage
       THEN /\ event' = Event("generatePersona", <<>>, FALSE, FALSE)
            /\ UNCHANGED <<isLoading, personaCalls>>
       ELSE /\ Len(personaCalls) < MaxCalls
            /\ isLoading' = TRUE
            /\ personaCalls' = Append(personaCalls,
                                      [pc |-> "toRoute", image |-> selectedImage,
                                       asked |-> FALSE, reply |-> Failed(0)])
            /\ event' = Other
    /\ UNCHANGED <<selectedImage, persona, isChatLoading, chatHistory, tab, crashed,
                   reader, chatCalls, messages, turns, overlapped>>

\* A click on the Generate button.
GeneratePersona ==
    /\ ~crashed
    /\ GenerateEnabled
    /\ GeneratePersonaStart

\* POST of api/generate-persona, the provider call included.  The event
\* records the provider's answer when the provider was asked.
PersonaRouteStep(i, answer) ==
    /\ ~crashed
    /\ personaCalls[i].pc = "toRoute"
    /\ LET r == PersonaPost(personaCalls[i].image, answer)
       IN  /\ personaCalls' = [personaCalls EXCEPT ![i].pc = "responded",
                                                   ![i].asked = r.asked,
                                                   ![i].reply = r.reply]
           /\ event' = IF r.asked
                       THEN Event("personaRoute", answer.content, answer.ok,
                                  r.reply.status = 200)
                       ELSE Event("personaRoute", <<>>, FALSE, FALSE)
    /\ UNCHANGED <<selectedImage, persona, isLoading, isChatLoading, chatHistory, tab,
                   crashed, reader, chatCalls, messages, turns, overlapped>>

\* Variant: the status of the response is never looked at.
ResponseOkUnchecked(reply) == TRUE

\* response.ok: a status in the 200 range.
ResponseOk(reply) == reply.status = 200

\* Variant: the log is kept when a persona is installed.
LogAfterInstallKept(log) == log

\* setChatHistory([]) of generatePersona: the log of the new persona.
LogAfterInstall(log) == <<>>

\* generatePersona after the request: install on a success status, else toast.
\* The event records whether the log held turns when the handler ran and
\* whether a persona was installed.
PersonaContinue(i, reply) ==
    /\ personaCalls' = RemoveAt(personaCalls, i)
    /\ isLoading' = FALSE
    /\ IF ResponseOk(reply)
       THEN /\ persona' = reply.persona
            /\ chatHistory' = LogAfterInstall(chatHistory)
            /\ messages' = AfterCommit(tab, messages, <<>>, chatHistory')
            /\ crashed' = RenderThrows(tab, reply.persona)
            /\ turns' = 0
            /\ overlapped' = (chatCalls # <<>>)
            /\ event' = Event("personaSettled", <<>>, chatHistory # <<>>, TRUE)
       ELSE /\ event' = Event("personaSettled", <<>>, chatHistory # <<>>, FALSE)
            /\ UNCHANGED <<persona, chatHistory, messages, crashed, turns, overlapped>>
    /\ UNCHANGED <<selectedImage, isChatLoading, tab, reader, chatCalls>>

PersonaSettle(i) ==
    /\ ~crashed
    /\ personaCalls[i].pc = "responded"
    /\ PersonaContinue(i, personaCalls[i].reply)

\* fetch rejects: the request never got an answer.
PersonaFetchReject(i) ==
    /\ ~crashed
    /\ personaCalls[i].pc = "toRoute"
    /\ PersonaContinue(i, Failed(0))

\* ------------------------------------------------------------- chat turn

\* Variant: the input is tested without trim().
ChatBoxAcceptsUntrimmed(text) == text # <<>> /\ persona.k # "null" /\ ~isChatLoading

\* Variant: the busy flag is not tested.
ChatBoxAcceptsWhileBusy(text) == Trim(text) # <<>> /\ persona.k # "null"

\* ChatBox.handleSendMessage: if (!inputMessage.trim() || !persona || isLoading) return
ChatBoxAccepts(text) == Trim(text) # <<>> /\ persona.k # "null" /\ ~isChatLoading

\* Home.handleSendMessage: if (!persona) return
HomeAccepts == persona.k # "null"

\* The request body of the chat call: message, persona, chatHistory: nextHistory.
ChatBody(message, nextHistory) ==
    [message |-> message, persona |-> persona, chatHistory |-> nextHistory]

\* ChatBox.handleSendMessage and Home.handleSendMessage up to the request.
\* The ChatBox is the content of the chat tab.
SubmitTurn(text) ==
    /\ ~crashed
    /\ tab = "chat"
    /\ IF ChatBoxAccepts(text) /\ HomeAccepts
       THEN LET nextHistory == Append(chatHistory, UserTurn(text))
            IN  /\ turns < MaxTurns
                /\ Len(chatCalls) < MaxCalls
                /\ isChatLoading' = TRUE
                /\ chatHistory' = nextHistory
                /\ messages' = AfterCommit(tab, messages, <<>>, chatHistory')
                /\ chatCalls' = Append(chatCalls,
                                   [pc |-> "toRoute", body |-> ChatBody(text, nextHistory),
                                    before |-> chatHistory, sent |-> <<>>,
                                    reply |-> Failed(0), box |-> TRUE])
                /\ turns' = turns + 1
                /\ event' = Event("submitTurn", text, TRUE, TRUE)
       ELSE /\ event' = Event("submitTurn", text, TRUE, FALSE)
            /\ UNCHANGED <<isChatLoading, chatHistory, chatCalls, messages, turns>>
    /\ UNCHANGED <<selectedImage, persona, isLoading, tab, crashed, reader, personaCalls,
                   overlapped>>

\* POST of api/chat, the provider call included.
ChatRouteStep(i, answer) ==
    /\ ~crashed
    /\ chatCalls[i].pc = "toRoute"
    /\ LET r == ChatRoute(chatCalls[i].body, answer)
       IN  /\ chatCalls' = [chatCalls EXCEPT ![i].pc = "responded", ![i].sent = r.sent,
                                             ![i].reply = r.reply]
           /\ event' = Other
    /\ UNCHANGED <<selectedImage, persona, isLoading, isChatLoading, chatHistory, tab,
                   crashed, reader, personaCalls, messages, turns, overlapped>>

\* Variant: the catch block rethrows without a fallback turn.
SendOutcomeNoFallback(reply) ==
    IF ResponseOk(reply)
    THEN [append |-> <<AssistantTurn(reply.response)>>, rejected |-> FALSE]
    ELSE [append |-> <<>>, rejected |-> TRUE]

\* Home.handleSendMessage after the request: the turn appended to the log and
\* whether the promise rejects (catch rethrows).
SendOutcome(reply) ==
    IF ResponseOk(reply)
    THEN [append |-> <<AssistantTurn(reply.response)>>, rejected |-> FALSE]
    ELSE [append |-> <<AssistantTurn(Apology)>>, rejected |-> TRUE]

\* Variant: the flag is cleared at the end of the try block only.
BusyAfterSettleInTry(reply) == ~ResponseOk(reply)

\* finally { setIsChatLoading(false) }
BusyAfterSettle(reply) == FALSE

\* The catch block of ChatBox.handleSendMessage runs when the promise of
\* onSendMessage rejects; its setMessages reaches the ChatBox that awaits
\* the call, if that one is still mounted.
ChatContinue(i, reply) ==
    LET out == SendOutcome(reply)
        queued == IF out.rejected /\ chatCalls[i].box THEN <<Bubble>> ELSE <<>>
    IN  /\ chatHistory' = chatHistory \o out.append
        /\ messages' = AfterCommit(tab, messages, queued, chatHistory')
        /\ isChatLoading' = BusyAfterSettle(reply)
        /\ chatCalls' = RemoveAt(chatCalls, i)
        /\ event' = [Event("chatSettled", chatCalls[i].body.message, reply.status = 200,
                           ~out.rejected) EXCEPT !.bubble = (queued # <<>>)]
        /\ UNCHANGED <<selectedImage, persona, isLoading, tab, crashed, reader,
                       personaCalls, turns, overlapped>>

ChatSettle(i) ==
    /\ ~crashed
    /\ chatCalls[i].pc = "responded"
    /\ ChatContinue(i, chatCalls[i].reply)

\* fetch rejects: the request never got an answer.
ChatFetchReject(i) ==
    /\ ~crashed
    /\ chatCalls[i].pc = "toRoute"
    /\ ChatContinue(i, Failed(0))

\* ------------------------------------------------------------------ tabs

\* <TabsTrigger value="chat" disabled={!persona}>.  A switch unmounts the
\* content of the tab left, the ChatBox and its state included, and mounts
\* that of the tab entered.
TabEnabled(t) == t = "chat" => persona.k # "null"

SwitchTab(t) ==
    /\ ~crashed
    /\ t # tab
    /\ TabEnabled(t)
    /\ tab' = t
    /\ crashed' = RenderThrows(t, persona)
    /\ messages' = AfterCommit(t, <<>>, <<>>, chatHistory)
    /\ chatCalls' = [j \in 1 .. Len(chatCalls) |-> [chatCalls[j] EXCEPT !.box = FALSE]]
    /\ event' = Other
    /\ UNCHANGED <<selectedImage, persona, isLoading, isChatLoading, chatHistory, reader,
                   personaCalls, turns, overlapped>>

Next ==
    \/ \E file \in PageFiles : UploadImage(file)
    \/ \E file \in Images : ReaderLoad(file)
    \/ GeneratePersona
    \/ \E i \in 1 .. Len(personaCalls) : \E answer \in PersonaAnswers : PersonaRouteStep(i, answer)
    \/ \E i \in 1 .. Len(personaCalls) : PersonaSettle(i)
    \/ \E i \in 1 .. Len(personaCalls) : PersonaFetchReject(i)
    \/ \E text \in Texts : SubmitTurn(text)
    \/ \E i \in 1 .. Len(chatCalls) : \E answer \in ChatAnswers : ChatRouteStep(i, answer)
    \/ \E i \in 1 .. Len(chatCalls) : ChatSettle(i)
    \/ \E i \in 1 .. Len(chatCalls) : ChatFetchReject(i)
    \/ \E t \in {"persona", "chat"} : SwitchTab(t)

Spec == Init /\ [][Next]_vars

\* A request gets its answer or fails, and the continuation of a handler
\* runs once its promise has settled.
Scheduling ==
    /\ WF_vars(\E i \in 1 .. Len(chatCalls) :
                  \/ \E answer \in ChatAnswers : ChatRouteStep(i, answer)
                  \/ ChatFetchReject(i))
    /\ WF_vars(\E i \in 1 .. Len(chatCalls) : ChatSettle(i))
    /\ WF_vars(\E i \in 1 .. Len(personaCalls) :
                  \/ \E answer \in PersonaAnswers : PersonaRouteStep(i, answer)
                  \/ PersonaFetchReject(i))
    /\ WF_vars(\E i \in 1 .. Len(personaCalls) : PersonaSettle(i))
    /\ WF_vars(\E file \in Images : ReaderLoad(file))

SpecLive == Spec /\ Scheduling

\* ------------------------------------- upload and generation on their own

\* Home with its upload card and the persona tab: files of every image and
\* of another type are chosen, personas are generated, no turn is submitted.
NextUpload ==
    \/ \E file \in Images \cup {NotAnImage} : UploadImage(file)
    \/ \E file \in Images : ReaderLoad(file)
    \/ GeneratePersona
    \/ \E i \in 1 .. Len(personaCalls) : \E answer \in PersonaAnswers : PersonaRouteStep(i, answer)
    \/ \E i \in 1 .. Len(personaCalls) : PersonaSettle(i)
    \/ \E i \in 1 .. Len(personaCalls) : PersonaFetchReject(i)

SpecUpload == Init /\ [][NextUpload]_vars

\* --------------------------------------------- the chat route on its own

\* Requests any client can post to api/chat.
RECURSIVE SeqsUpTo(_, _)
SeqsUpTo(S, n) ==
    IF n = 0 THEN {<<>>}
    ELSE LET shorter == SeqsUpTo(S, n - 1)
         IN  shorter \cup {Append(t, x) : t \in {s \in shorter : Len(s) = n - 1}, x \in S}

RequestTurns == {UserTurn(<<" ", "a">>), AssistantTurn(<<"r">>), AssistantTurn(Apology)}

RequestPersonas ==
    {NullPersona} \cup {JsonParse(body).value :
                          body \in {FullBody, <<"{", "n", "}">>, <<"{", "t", "}">>,
                                    <<"{", "n", "d", "p", "b", "T", "}">>}}

InitAssemble ==
    /\ selectedImage = NoImage
    /\ persona = NullPersona
    /\ isLoading = FALSE
    /\ isChatLoading = FALSE
    /\ chatHistory = <<>>
    /\ tab = "persona"
    /\ crashed = FALSE
    /\ reader = {}
    /\ \E p \in RequestPersonas, h \in SeqsUpTo(RequestTurns, MaxHistory), m \in Texts :
          chatCalls = <<[pc |-> "toRoute",
                         body |-> [message |-> m, persona |-> p, chatHistory |-> h],
                         before |-> h, sent |-> <<>>, reply |-> Failed(0),
                         box |-> FALSE]>>
    /\ personaCalls = <<>>
    /\ messages = <<>>
    /\ event = Other
    /\ turns = 0
    /\ overlapped = FALSE

NextAssemble == \E i \in 1 .. Len(chatCalls) : \E answer \in ChatAnswers : ChatRouteStep(i, answer)

SpecAssemble == InitAssemble /\ [][NextAssemble]_vars

\* ------------------------------------------ persona creation on its own

\* Provider texts up to MaxText tokens over braces, noise and a member, and
\* the whole object inside up to MaxNoise tokens of noise on either side.
CreateTexts ==
    SeqsUpTo({"{", "}", "x", "n"}, MaxText)
    \cup {pre \o FullBody \o post : pre \in SeqsUpTo({"x"}, MaxNoise),
                                    post \in SeqsUpTo({"x"}, MaxNoise)}

CreateAnswers == {ProviderFailure} \cup {ProviderText(c) : c \in CreateTexts}

\* Home before and after an image is selected; on the network nothing, or a
\* request to api/generate-persona that some client posted, with or without
\* an image in its form.
InitCreate ==
    /\ selectedImage \in {NoImage} \cup Images
    /\ persona = NullPersona
    /\ isLoading = FALSE
    /\ isChatLoading = FALSE
    /\ chatHistory = <<>>
    /\ tab = "persona"
    /\ crashed = FALSE
    /\ reader = {}
    /\ chatCalls = <<>>
    /\ personaCalls \in {<<>>} \cup {<<[pc |-> "toRoute", image |-> im, asked |-> FALSE,
                                         reply |-> Failed(0)]>> : im \in {NoImage} \cup Images}
    /\ messages = <<>>
    /\ event = Other
    /\ turns = 0
    /\ overlapped = FALSE

\* generatePersona called, whatever the button shows; it issues a request
\* only while the network holds none.
CallGeneratePersona ==
    /\ ~crashed
    /\ selectedImage # NoImage => personaCalls = <<>>
    /\ GeneratePersonaStart

NextCreate ==
    \/ CallGeneratePersona
    \/ \E i \in 1 .. Len(personaCalls) : \E answer \in CreateAnswers : PersonaRouteStep(i, answer)

SpecCreate == InitCreate /\ [][NextCreate]_vars

\* ---------------------------------------------------------------- claims

IsPrefix(s, t) == Len(s) <= Len(t) /\ SubSeq(t, 1, Len(s)) = s

\* C1: after a sequence of turns submitted under one persona, each settled
\* before the next (no reset of the log overlapped a turn), the log holds
\* exactly two entries per submitted turn; and every step either extends the
\* log or is a reset that discards the whole log.
LogAppendOnly ==
    /\ []((~overlapped /\ chatCalls = <<>>) => Len(chatHistory) = 2 * turns)
    /\ [][IsPrefix(chatHistory, chatHistory') \/ chatHistory' = <<>>]_vars

LogAppendOnlyWitness ==
    /\ ~overlapped
    /\ chatCalls = <<>>
    /\ turns = 2
    /\ Len(chatHistory) = 4
    /\ chatHistory[2] = AssistantTurn(Apology)
    /\ chatHistory[4] = AssistantTurn(<<"r">>)

\* C2: when the chat call fails, the settled log ends with the user turn of
\* that call followed by the apology turn, and the promise rejects.
FallbackAfterUserTurn ==
    (event.type = "chatSettled" /\ ~event.arg) =>
        /\ ~event.ok
        /\ Len(chatHistory) >= 2
        /\ chatHistory[Len(chatHistory) - 1] = UserTurn(event.text)
        /\ chatHistory[Len(chatHistory)] = AssistantTurn(Apology)

\* C3: right after a persona is installed the log is empty.
InstallResetsLog == (event.type = "personaSettled" /\ event.ok) => chatHistory = <<>>

InstallResetsLogWitness ==
    /\ event.type = "personaSettled"
    /\ event.ok
    /\ event.arg
    /\ persona.k = "obj"
    /\ chatHistory = <<>>

\* The provider answer of the persona route the event records is one the
\* route cannot extract a persona from.
ExtractionFails ==
    \/ ~event.arg
    \/ event.text = <<>>
    \/ JsonMatch(event.text) = <<>>
    \/ ~JsonParse(JsonMatch(event.text)).ok

\* The persona call i leaves the network in this step, its handler having
\* seen a failure: an error status, or no answer at all.
PersonaCallFails(i) ==
    /\ personaCalls' = RemoveAt(personaCalls, i)
    /\ personaCalls[i].pc = "responded" => personaCalls[i].reply.status # 200

\* C4: a persona creation that fails changes neither the persona nor the log:
\* the route answers every failed provider call or extraction with an error
\* status, and the client's handler, seeing the failure, installs nothing
\* and leaves persona and log as they are.
FailedCreationChangesNothing ==
    /\ []((event.type = "personaRoute" /\ ExtractionFails) => ~event.ok)
    /\ [][\A i \in 1 .. Len(personaCalls) :
            PersonaCallFails(i) => (persona' = persona /\ chatHistory' = chatHistory /\ ~event'.ok)]_vars

FailedCreationWitness ==
    /\ event.type = "personaSettled"
    /\ ~event.ok
    /\ persona.k = "obj"
    /\ chatHistory # <<>>
    /\ ~isLoading

\* C5: a submission whose text trims to nothing, or made while no persona is
\* installed, changes neither the log nor the busy flag and issues no call.
BlankSubmissionIsNoOp ==
    [][(event'.type = "submitTurn" /\ (Trim(event'.text) = <<>> \/ persona.k = "null"))
       => (chatHistory' = chatHistory /\ isChatLoading' = isChatLoading /\ chatCalls' = chatCalls
           /\ ~event'.ok)]_vars

BlankSubmissionWitness ==
    /\ event.type = "submitTurn"
    /\ event.text = <<" ">>
    /\ ~event.ok
    /\ persona.k = "obj"
    /\ ~isChatLoading

\* C6: the message list the provider receives for a turn is the system
\* instruction, the log as it was before the submission, and the new user
\* message once.
ProviderSeesMessageOnce ==
    \A i \in 1 .. Len(chatCalls) :
        (chatCalls[i].pc = "responded" /\ chatCalls[i].sent # <<>>) =>
            /\ chatCalls[i].sent[1].role = "system"
            /\ Tail(chatCalls[i].sent) = chatCalls[i].before \o <<UserTurn(chatCalls[i].body.message)>>

\* C7: for a persona with its traits array, a history h and a non-empty
\* message m the chat route assembles system, h element by element, user m.
AssembledList ==
    \A i \in 1 .. Len(chatCalls) :
        LET c == chatCalls[i]
            h == c.body.chatHistory
        IN  (/\ c.pc = "responded"
             /\ c.body.message # <<>>
             /\ c.body.persona.k = "obj"
             /\ c.body.persona.traits.k = "arr") =>
                /\ Len(c.sent) = Len(h) + 2
                /\ c.sent[1].role = "system"
                /\ \A j \in 1 .. Len(h) : c.sent[j + 1] = h[j]
                /\ c.sent[Len(c.sent)] = UserTurn(c.body.message)

AssembledListWitness ==
    /\ chatCalls # <<>>
    /\ chatCalls[1].pc = "responded"
    /\ chatCalls[1].body.chatHistory = <<UserTurn(<<" ", "a">>), AssistantTurn(<<"r">>)>>
    /\ Len(chatCalls[1].sent) = 4

\* C8: a submission made while the busy flag is set is refused and issues no
\* call; so at most one chat call is outstanding, and one is outstanding only
\* while the flag is set.
OneChatCallAtATime ==
    /\ [](Len(chatCalls) <= 1 /\ (chatCalls # <<>> => isChatLoading))
    /\ [][(event'.type = "submitTurn" /\ isChatLoading)
           => (~event'.ok /\ chatCalls' = chatCalls /\ chatHistory' = chatHistory)]_vars

OneChatCallWitness ==
    /\ event.type = "submitTurn"
    /\ Trim(event.text) # <<>>
    /\ ~event.ok
    /\ persona.k = "obj"
    /\ isChatLoading
    /\ Len(chatCalls) = 1

\* C9: while a chat call is outstanding no persona call is outstanding, and
\* neither the persona nor the log is replaced or reset.
CreationExcludesTurn ==
    /\ [](chatCalls # <<>> => personaCalls = <<>>)
    /\ [][chatCalls # <<>> => (persona' = persona /\ IsPrefix(chatHistory, chatHistory'))]_vars

\* C10: a persona the route returns, and so the persona installed, has all
\* five fields, traits being an array.
OnlyWholePersonas ==
    /\ \A i \in 1 .. Len(personaCalls) :
          personaCalls[i].reply.status = 200 => IsPersonaRecord(personaCalls[i].reply.persona)
    /\ persona.k = "obj" => IsPersonaRecord(persona)

\* Some token of the text is a brace.
HasBrace(text) == \E i \in 1 .. Len(text) : text[i] \in {"{", "}"}

\* C11: the candidate the persona route decodes runs from the first "{" of
\* the provider text to its last "}": the route answers with a persona
\* exactly when that substring decodes, and the persona is its decoding.  So
\* for brace-free noise around a JSON object the persona is that object.
GreedyExtraction ==
    (event.type = "personaRoute" /\ event.arg /\ event.text # <<>>) =>
        \A i \in 1 .. Len(personaCalls) :
            LET text == event.text
                reply == personaCalls[i].reply
            IN  (personaCalls[i].pc = "responded" /\ personaCalls[i].asked) =>
                  /\ \A a, b \in 1 .. Len(text) :
                        (/\ a < b
                         /\ text[a] = "{"
                         /\ text[b] = "}"
                         /\ \A j \in 1 .. a - 1 : text[j] # "{"
                         /\ \A j \in b + 1 .. Len(text) : text[j] # "}") =>
                            LET parsed == JsonParse(SubSeq(text, a, b))
                            IN  /\ (reply.status = 200) = parsed.ok
                                /\ parsed.ok => reply.persona = parsed.value
                  /\ \A a, b \in 1 .. Len(text) :
                        (/\ a < b
                         /\ ~HasBrace(SubSeq(text, 1, a - 1))
                         /\ ~HasBrace(SubSeq(text, b + 1, Len(text)))
                         /\ JsonParse(SubSeq(text, a, b)).ok) =>
                            /\ reply.status = 200
                            /\ reply.persona = JsonParse(SubSeq(text, a, b)).value

GreedyExtractionWitness ==
    /\ event.type = "personaRoute"
    /\ event.text = <<"x", "x">> \o FullBody \o <<"x">>
    /\ Len(personaCalls) = 1
    /\ personaCalls[1].reply.status = 200
    /\ personaCalls[1].reply.persona = JsonParse(FullBody).value
    /\ personaCalls[1].reply.persona.name = Str("Rocky")

\* C12: the chat busy flag is set exactly while a chat call is outstanding:
\* set in the step that issues the call, cleared in the step that handles
\* its outcome, success or failure; and once set it is cleared again, the
\* call being answered, for as long as the page is up.
BusyWhileOutstanding ==
    /\ [](isChatLoading <=> chatCalls # <<>>)
    /\ isChatLoading ~> (~isChatLoading \/ crashed)

BusyWhileOutstandingWitness ==
    /\ event.type = "chatSettled"
    /\ ~event.arg
    /\ ~isChatLoading
    /\ chatCalls = <<>>
    /\ chatHistory # <<>>
    /\ chatHistory[Len(chatHistory)] = AssistantTurn(Apology)

\* A failed operation has just settled: a persona creation that installed
\* nothing, or a turn the route did not answer with a reply.
FailureSettled ==
    \/ event.type = "personaSettled" /\ ~event.ok
    \/ event.type = "chatSettled" /\ ~event.arg

\* C13: when a failed persona creation or a failed turn has settled, both
\* busy flags are false, so that the Generate button is enabled for the
\* selected image and the ChatBox accepts a turn under the installed persona.
FailureLeavesIdle ==
    FailureSettled =>
        /\ ~isLoading
        /\ ~isChatLoading
        /\ selectedImage # NoImage => GenerateEnabled
        /\ persona.k # "null" => ChatBoxAccepts(<<" ", "a">>)

\* The kind of a failure of persona creation, from what the route threw.
ErrorKind(answer) ==
    CASE ThrownError(answer) = "Invalid response format from AI" -> "NoStructuredPayloadError"
      [] ThrownError(answer) = "SyntaxError" -> "MalformedPersonaError"
      [] ThrownError(answer) = "" -> "none"
      [] OTHER -> "UpstreamGenerationError"

\* What the caller of the persona route can read off an error response.
Reported(reply) == <<reply.status, PersonaErrorBody(reply)>>

\* C14: a failed persona creation tells its caller the kind of the failure:
\* the response to a provider answer that fails in one way differs from the
\* response to any provider answer that fails in another way.
ErrorKindReported ==
    \A i \in 1 .. Len(personaCalls) :
        (/\ event.type = "personaRoute"
         /\ personaCalls[i].pc = "responded"
         /\ personaCalls[i].asked
         /\ personaCalls[i].reply.status # 200) =>
            LET answer == [ok |-> event.arg, content |-> event.text]
            IN  \A other \in CreateAnswers :
                    (ErrorKind(other) \notin {"none", ErrorKind(answer)}) =>
                        Reported(PersonaPost(personaCalls[i].image, other).reply)
                            # Reported(personaCalls[i].reply)

\* C15: persona creation without an image is refused before the provider is
\* asked: the route answers a request without an image 400 and asks no
\* provider, and with no image selected generatePersona issues no request;
\* persona and log stay as they are.
NoImageRejected ==
    /\ [](\A i \in 1 .. Len(personaCalls) :
            (personaCalls[i].pc = "responded" /\ personaCalls[i].image = NoImage) =>
                (personaCalls[i].reply.status = 400 /\ ~personaCalls[i].asked))
    /\ [][selectedImage = NoImage =>
            /\ Len(personaCalls') = Len(personaCalls)
            /\ isLoading' = isLoading
            /\ persona' = persona
            /\ chatHistory' = chatHistory]_vars

NoImageRejectedWitness ==
    /\ event.type = "generatePersona"
    /\ ~event.ok
    /\ selectedImage = NoImage
    /\ Len(personaCalls) = 1
    /\ personaCalls[1].image = NoImage
    /\ personaCalls[1].reply.status = 400
    /\ ~personaCalls[1].asked

\* C16: the chat route answers a request whose message is empty or blank, or
\* which carries no persona, with status 400 and sends nothing to the
\* provider.
BlankMessageRejected ==
    \A i \in 1 .. Len(chatCalls) :
        (/\ chatCalls[i].pc = "responded"
         /\ (Trim(chatCalls[i].body.message) = <<>> \/ chatCalls[i].body.persona.k = "null")) =>
            /\ chatCalls[i].reply.status = 400
            /\ chatCalls[i].sent = <<>>

\* The turns of a log are user, assistant, user, assistant, ...
Alternates(log) ==
    \A j \in 1 .. Len(log) : log[j].role = IF j % 2 = 1 THEN "user" ELSE "assistant"

\* C18: the log alternates from a user turn on; its length is even while no
\* chat call is outstanding and odd, the last turn the user's, while one is.
LogAlternates ==
    /\ Alternates(chatHistory)
    /\ Len(chatHistory) % 2 = (IF chatCalls = <<>> THEN 0 ELSE 1)

\* C19: while no persona is installed the log is empty.
NoPersonaNoLog == persona.k = "null" => chatHistory = <<>>

\* C20: a persona is installed only from a request that was issued for the
\* image selected at the time of the installation.
InstalledFromSelected ==
    [][\A i \in 1 .. Len(personaCalls) :
          (/\ personaCalls' = RemoveAt(personaCalls, i)
           /\ personaCalls[i].pc = "responded"
           /\ ResponseOk(personaCalls[i].reply)) =>
              personaCalls[i].image = selectedImage']_vars

\* C21: the messages of the mounted ChatBox are the log entry by entry, a
\* user turn as a user message and an assistant turn as a persona message;
\* and when a turn has failed the list ends with the apology once, not with
\* the fallback turn of the log followed by the bubble of the ChatBox.
RenderedMirrorsLog ==
    tab = "chat" =>
        /\ Len(messages) = Len(chatHistory)
        /\ \A j \in 1 .. Len(chatHistory) :
              /\ messages[j].text = chatHistory[j].content
              /\ messages[j].sender =
                    (IF chatHistory[j].role = "user" THEN "user" ELSE "persona")
        /\ (event.type = "chatSettled" /\ ~event.ok) =>
              /\ messages # <<>>
              /\ messages[Len(messages)] = Bubble
              /\ Len(messages) >= 2 => messages[Len(messages) - 1] # Bubble

RenderedMirrorsLogWitness ==
    /\ tab = "chat"
    /\ event.type = "chatSettled"
    /\ ~event.ok
    /\ event.bubble
    /\ persona.k = "obj"
    /\ chatHistory = <<UserTurn(<<" ", "a">>), AssistantTurn(<<"r">>),
                       UserTurn(<<" ", "a">>), AssistantTurn(Apology)>>
    /\ Len(messages) = 4
    /\ messages[3].sender = "user"
    /\ messages[4] = Bubble

====
